---- MODULE Spec2Model ----
(***************************************************************************)
(* Model of kitsune/questions/static/questions/js/actions/AAQActions.es6.js *)
(*                                                                         *)
(* The module is a Flux action creator.  Its observable effects are the    *)
(* actions it hands to AAQDispatcher.dispatch and the HTTP requests it     *)
(* starts with $.ajax.  Both are recorded, in program order, in `log`,     *)
(* together with the API calls and the HTTP responses that caused them.    *)
(* JavaScript runs each handler to completion, so every exported function, *)
(* every timer callback and every ajax callback is one atomic action.      *)
(*                                                                         *)
(* searchSuggestions is rebound to _.throttle(searchSuggestions, 500)      *)
(* (line 59).  The closure state of the throttle (previous, timeout, args) *)
(* is modelled as underscore implements it with default options (leading   *)
(* and trailing edge both on).  The clock `now` is Date.now() in           *)
(* milliseconds and is taken to be monotonic.  A timer never runs before   *)
(* its due time but may run late.                                          *)
(*                                                                         *)
(* The views, the store and the network are the environment: `budget`      *)
(* fixes, per behaviour, how many calls of each kind the views make and    *)
(* how many HTTP responses arrive; the store may change the draft at any   *)
(* time, and in particular while it handles a dispatched action.           *)
(***************************************************************************)
EXTENDS Integers, Sequences, FiniteSets, TLC

\* ---------------------------------------------------------------- bounds
MaxTicks == 4        \* the clock stops after this many ticks
MaxTitleCalls == 3   \* setTitle calls in a burst
MaxSubmits == 2      \* overlapping submitQuestion calls
MaxResponses == 2    \* HTTP responses delivered

\* ------------------------------------------------------- program constants
Wait == 500          \* _.throttle(searchSuggestions, 500)
max_questions == 2
max_documents == 2

\* ------------------------------------------------------------ input sets
\* the clock moves in steps of half a throttle interval
Tick == Wait \div 2
StartTime == 2 * Wait
MaxTime == StartTime + MaxTicks * Tick
Titles == {"t", "u"}
Products == {"firefox", "mobile"}
Topics == {"sync"}
Contents == {"help"}
StatusTexts == {"Bad Request", "error"}
\* document.querySelector('input[name=csrfmiddlewaretoken]').value; the page
\* that loads this module is taken to contain the input
csrfmiddlewaretoken == "csrf-token"
\* lists a view may pass to the exported setSuggestions
DirectSuggestions == {<<>>}

\* Records the suggest API may return.  The handler only relies on
\* question.id; every other property is passed through.
DocPool == << [title |-> "d1", url |-> "/kb/d1", summary |-> "s1"],
              [title |-> "d2", url |-> "/kb/d2", summary |-> "s2", type |-> "wiki"] >>
QuestionPool == << [id |-> 7, title |-> "q7"],
                   [id |-> 12, title |-> "q12", summary |-> "old", url |-> "/x"] >>

\* responses with N documents and M questions, <<N, M>> as listed
SuggestResponses ==
  { [documents |-> SubSeq(DocPool, 1, nm[1]), questions |-> SubSeq(QuestionPool, 1, nm[2])] :
      nm \in {<<0, 0>>, <<2, 1>>, <<1, 2>>} }

\* What the page and the network do in one behaviour: how often the views
\* call setTitle, the forwarding functions and submitQuestion, and how many
\* HTTP responses arrive, and whether the store changes the draft meanwhile.
Budgets ==
  { [title |-> MaxTitleCalls, forward |-> 0, submit |-> 0, response |-> 0, store |-> FALSE],
    [title |-> 2, forward |-> 0, submit |-> 0, response |-> MaxResponses, store |-> TRUE],
    [title |-> 2, forward |-> 1, submit |-> 0, response |-> 0, store |-> TRUE],
    [title |-> 2, forward |-> 0, submit |-> 1, response |-> 0, store |-> TRUE],
    [title |-> 1, forward |-> 0, submit |-> 1, response |-> MaxResponses, store |-> TRUE],
    [title |-> 1, forward |-> 1, submit |-> 1, response |-> 0, store |-> TRUE],
    [title |-> 0, forward |-> 0, submit |-> MaxSubmits, response |-> MaxResponses, store |-> TRUE] }

\* QuestionEditStore.getQuestion(): the draft, owned by the store.
Drafts == [product : Products, title : {"t"}]

VARIABLES
  now,       \* Date.now()
  previous,  \* _.throttle closure: time of the last execution, 0 at start
  timeout,   \* _.throttle closure: <<>> (null) or <<due time>> of the timer
  args,      \* _.throttle closure: <<>> (null) or <<title>> of the last call
  argsProduct, \* the draft's product when the call in args was made (history)
  draft,     \* QuestionEditStore's question
  inflight,  \* ajax requests that have not completed
  nextId,    \* number of the next ajax request (history)
  log,       \* calls, dispatched actions, requests and responses, in order
  budget     \* the calls and responses this behaviour may see

vars == <<now, previous, timeout, args, argsProduct, draft, inflight, nextId, log, budget>>
throttleVars == <<previous, timeout, args, argsProduct>>

\* ------------------------------------------------------------ log entries
\* `at` is the time of a setTitle call or of a suggestion GET, 0 for the
\* entries whose time no property refers to
CallEntry(op, arg) ==
  [kind |-> "call", op |-> op, arg |-> arg, at |-> IF op = "setTitle" THEN now ELSE 0]
\* AAQDispatcher.dispatch(action); req is the ajax request the dispatching
\* handler belongs to (0: none)
Dispatch(action, req) == [kind |-> "dispatch", action |-> action, req |-> req]
\* trailing: made by the throttle's timer; calledWith: the draft's product
\* when the setTitle call that a trailing GET answers was made
RequestEntry(req, trailing) ==
  [kind |-> "request", id |-> req.id, method |-> req.method, url |-> req.url,
   data |-> req.data, at |-> IF req.method = "GET" THEN now ELSE 0,
   trailing |-> trailing, calledWith |-> IF trailing THEN argsProduct ELSE ""]
ResponseEntry(req, ok, body) ==
  [kind |-> "response", id |-> req.id, method |-> req.method, ok |-> ok, body |-> body]

Select(kind) == SelectSeq(log, LAMBDA e : e.kind = kind)
Calls(op) == SelectSeq(log, LAMBDA e : e.kind = "call" /\ e.op = op)
Dispatched(type) == SelectSeq(log, LAMBDA e : e.kind = "dispatch" /\ e.action.type = type)
Requests(method) == SelectSeq(log, LAMBDA e : e.kind = "request" /\ e.method = method)
Responses(method) == SelectSeq(log, LAMBDA e : e.kind = "response" /\ e.method = method)

\* ---------------------------------------------------------------- throttle
\* var remaining = wait - (now - previous);
remaining == Wait - (now - previous)

\* mutant: searchSuggestions without the throttle
leadingAlways == TRUE

\* if (remaining <= 0 || remaining > wait): the call executes func at once
leading == remaining <= 0 \/ remaining > Wait

\* AAQDispatcher.dispatch runs the store's handler before it returns: the
\* draft after a dispatch is whatever the store made of it
storeReacts == draft' \in (IF budget.store THEN Drafts ELSE {draft})

\* the $.ajax settings of searchSuggestions(title); getQuestion() is called
\* when the request is made, after the dispatch of the running handler if it
\* has one
suggestRequest(title) ==
  [id |-> nextId, method |-> "GET", url |-> "/api/2/search/suggest",
   data |-> [q |-> title, max_questions |-> max_questions,
             max_documents |-> max_documents, product |-> draft'.product]]

\* mutant: a new search aborts the suggestion requests still in flight
searchSuggestionsAborting(title, sofar, trailing) ==
  /\ log' = sofar \o <<RequestEntry(suggestRequest(title), trailing)>>
  /\ inflight' = {r \in inflight : r.method # "GET"} \cup {suggestRequest(title)}
  /\ nextId' = nextId + 1

\* searchSuggestions(title): the $.ajax call; sofar is what the running
\* handler has logged before it
searchSuggestions(title, sofar, trailing) ==
  /\ log' = sofar \o <<RequestEntry(suggestRequest(title), trailing)>>
  /\ inflight' = inflight \cup {suggestRequest(title)}
  /\ nextId' = nextId + 1

\* mutant: a throttle without the trailing edge
throttledNoTrailing(title, sofar) ==
  IF leading
    THEN /\ timeout' = <<>>
         /\ previous' = now
         /\ args' = <<>>
         /\ argsProduct' = ""
         /\ searchSuggestions(title, sofar, FALSE)
    ELSE /\ args' = <<title>>
         /\ argsProduct' = draft'.product
         /\ log' = sofar
         /\ UNCHANGED <<timeout, previous, inflight, nextId>>

\* mutant: a throttle whose timer keeps the arguments it was started with
throttledFirstArgs(title, sofar) ==
  IF leading
    THEN /\ timeout' = <<>>
         /\ previous' = now
         /\ args' = <<>>
         /\ argsProduct' = ""
         /\ searchSuggestions(title, sofar, FALSE)
    ELSE /\ timeout' = IF timeout = <<>> THEN <<now + remaining>> ELSE timeout
         /\ args' = IF timeout = <<>> THEN <<title>> ELSE args
         /\ argsProduct' = IF timeout = <<>> THEN draft'.product ELSE argsProduct
         /\ log' = sofar
         /\ UNCHANGED <<previous, inflight, nextId>>

\* the function _.throttle returns, called as searchSuggestions(title) from
\* setTitle
throttled(title, sofar) ==
  IF leading
    THEN \* clearTimeout(timeout); timeout = null; previous = now;
         \* result = func.apply(context, args); context = args = null;
         /\ timeout' = <<>>
         /\ previous' = now
         /\ args' = <<>>
         /\ argsProduct' = ""
         /\ searchSuggestions(title, sofar, FALSE)
    ELSE \* args = arguments;
         \* else if (!timeout) timeout = setTimeout(later, remaining);
         /\ timeout' = IF timeout = <<>> THEN <<now + remaining>> ELSE timeout
         /\ args' = <<title>>
         /\ argsProduct' = draft'.product
         /\ log' = sofar
         /\ UNCHANGED <<previous, inflight, nextId>>

\* ------------------------------------------------------------ suggestions
\* obj[key] = val on a JavaScript object
Assign(obj, key, val) ==
  [k \in DOMAIN obj \cup {key} |-> IF k = key THEN val ELSE obj[k]]

Map(seq, F(_)) == [i \in 1..Len(seq) |-> F(seq[i])]

\* data.documents.map((document) => {document.type = 'document'; ...})
docSuggestion(document) == Assign(document, "type", "document")
docSuggestions(data) == Map(data.documents, docSuggestion)

\* data.questions.map((question) => {...})
questionSuggestion(question) ==
  Assign(Assign(Assign(question, "type", "question"),
                "url", "/questions/" \o ToString(question.id)),
         "summary", "")
questionSuggestions(data) == Map(data.questions, questionSuggestion)

\* mutant: questions before documents
suggestionsQuestionsFirst(data) == questionSuggestions(data) \o docSuggestions(data)

\* let suggestions = docSuggestions.concat(questionSuggestions);
suggestions(data) == docSuggestions(data) \o questionSuggestions(data)

\* export function setSuggestions(suggestions): the action it dispatches
setSuggestions(list, req) ==
  Dispatch([type |-> "SET_SUGGESTIONS", suggestions |-> list], req)

\* ----------------------------------------------------------------- actions
ForwardOps == {"setProduct", "setTopic", "setContent", "setSuggestions"}
TitleCallsLeft == Len(Calls("setTitle")) < budget.title
ForwardCallsLeft ==
  Len(SelectSeq(log, LAMBDA e : e.kind = "call" /\ e.op \in ForwardOps)) < budget.forward
SubmitsLeft == Len(Calls("submitQuestion")) < budget.submit
ResponsesLeft == Len(Select("response")) < budget.response

\* mutant: setTitle starts the search before it dispatches
setTitleSearchFirst(title) ==
  /\ storeReacts
  /\ TitleCallsLeft
  /\ IF leading
       THEN /\ timeout' = <<>>
            /\ previous' = now
            /\ args' = <<>>
            /\ argsProduct' = ""
            /\ log' = log \o <<CallEntry("setTitle", title),
                               RequestEntry(suggestRequest(title), FALSE),
                               Dispatch([type |-> "SET_TITLE", title |-> title], 0)>>
            /\ inflight' = inflight \cup {suggestRequest(title)}
            /\ nextId' = nextId + 1
       ELSE throttled(title, log \o <<CallEntry("setTitle", title),
                                      Dispatch([type |-> "SET_TITLE", title |-> title], 0)>>)
  /\ UNCHANGED <<now, budget>>

\* export function setTitle(title)
setTitle(title) ==
  /\ storeReacts
  /\ TitleCallsLeft
  /\ throttled(title, log \o <<CallEntry("setTitle", title),
                               Dispatch([type |-> "SET_TITLE", title |-> title], 0)>>)
  /\ UNCHANGED <<now, budget>>

\* mutant: the timer's search stores the searched title in the draft
laterWritesDraft ==
  /\ timeout # <<>>
  /\ now >= timeout[1]
  /\ draft' = [draft EXCEPT !.title = args[1]]
  /\ UNCHANGED <<now, budget>>
  /\ previous' = now
  /\ timeout' = <<>>
  /\ searchSuggestions(args[1], log, TRUE)
  /\ args' = <<>>
  /\ argsProduct' = ""

\* mutant: the timer's search sends the product the draft had at call time
laterCallTimeProduct ==
  /\ timeout # <<>>
  /\ now >= timeout[1]
  /\ UNCHANGED <<now, draft, budget>>
  /\ previous' = now
  /\ timeout' = <<>>
  /\ LET req == [suggestRequest(args[1]) EXCEPT !.data.product = argsProduct] IN
       /\ log' = log \o <<RequestEntry(req, TRUE)>>
       /\ inflight' = inflight \cup {req}
  /\ nextId' = nextId + 1
  /\ args' = <<>>
  /\ argsProduct' = ""

\* the throttle's timer callback: var later = function() {...}
later ==
  /\ timeout # <<>>
  /\ now >= timeout[1]
  /\ UNCHANGED <<now, draft, budget>>
  \* previous = _.now(); timeout = null; result = func.apply(context, args);
  \* context = args = null;
  /\ previous' = now
  /\ timeout' = <<>>
  /\ searchSuggestions(args[1], log, TRUE)
  /\ args' = <<>>
  /\ argsProduct' = ""

\* mutant: a product change refreshes the suggestions
setProductSearches(product) ==
  /\ storeReacts
  /\ ForwardCallsLeft
  /\ searchSuggestions(draft.title,
                       log \o <<CallEntry("setProduct", product),
                                 Dispatch([type |-> "SET_PRODUCT", product |-> product], 0)>>,
                       FALSE)
  /\ UNCHANGED <<now, previous, timeout, args, argsProduct, budget>>

\* export function setProduct(product)
setProduct(product) ==
  /\ storeReacts
  /\ ForwardCallsLeft
  /\ log' = log \o <<CallEntry("setProduct", product),
                     Dispatch([type |-> "SET_PRODUCT", product |-> product], 0)>>
  /\ UNCHANGED <<now, previous, timeout, args, argsProduct, inflight, nextId, budget>>

\* export function setTopic(topic)
setTopic(topic) ==
  /\ storeReacts
  /\ ForwardCallsLeft
  /\ log' = log \o <<CallEntry("setTopic", topic),
                     Dispatch([type |-> "SET_TOPIC", topic |-> topic], 0)>>
  /\ UNCHANGED <<now, previous, timeout, args, argsProduct, inflight, nextId, budget>>

\* export function setContent(content)
setContent(content) ==
  /\ storeReacts
  /\ ForwardCallsLeft
  /\ log' = log \o <<CallEntry("setContent", content),
                     Dispatch([type |-> "SET_CONTENT", content |-> content], 0)>>
  /\ UNCHANGED <<now, previous, timeout, args, argsProduct, inflight, nextId, budget>>

\* export function setSuggestions(suggestions), called by a view
setSuggestionsCall(list) ==
  /\ storeReacts
  /\ ForwardCallsLeft
  /\ log' = log \o <<CallEntry("setSuggestions", list),
                     setSuggestions(list, 0)>>
  /\ UNCHANGED <<now, previous, timeout, args, argsProduct, inflight, nextId, budget>>

\* .done((data) => {...}) of searchSuggestions
suggestDone(req, data) ==
  /\ storeReacts
  /\ ResponsesLeft
  /\ req \in inflight
  /\ req.method = "GET"
  /\ inflight' = inflight \ {req}
  /\ log' = log \o <<ResponseEntry(req, TRUE, data),
                     setSuggestions(suggestions(data), req.id)>>
  /\ UNCHANGED <<now, previous, timeout, args, argsProduct, nextId, budget>>

\* mutant: a failed search clears the suggestions
suggestFailClears(req) ==
  /\ storeReacts
  /\ ResponsesLeft
  /\ req \in inflight
  /\ req.method = "GET"
  /\ inflight' = inflight \ {req}
  /\ log' = log \o <<ResponseEntry(req, FALSE, <<>>), setSuggestions(<<>>, req.id)>>
  /\ UNCHANGED <<now, previous, timeout, args, argsProduct, nextId, budget>>

\* .fail((err) => {...}) of searchSuggestions: console.log only
suggestFail(req) ==
  /\ ResponsesLeft
  /\ req \in inflight
  /\ req.method = "GET"
  /\ inflight' = inflight \ {req}
  /\ log' = log \o <<ResponseEntry(req, FALSE, <<>>)>>
  /\ UNCHANGED <<now, previous, timeout, args, argsProduct, draft, nextId, budget>>

\* mutant: getQuestion() is called before the dispatch
submitRequestEarlyRead ==
  [id |-> nextId, method |-> "POST", url |-> "/api/2/question/",
   data |-> draft, headers |-> [XCSRFToken |-> csrfmiddlewaretoken]]

\* the $.ajax settings of submitQuestion(); getQuestion() is called after
\* the dispatch; beforeSend adds the header
submitRequest ==
  [id |-> nextId, method |-> "POST", url |-> "/api/2/question/",
   data |-> draft', headers |-> [XCSRFToken |-> csrfmiddlewaretoken]]

\* mutant: a submission is ignored while an earlier one is in flight
submitQuestionGuarded ==
  /\ SubmitsLeft
  /\ IF \E r \in inflight : r.method = "POST"
       THEN /\ draft' = draft
            /\ log' = log \o <<CallEntry("submitQuestion", <<>>)>>
            /\ UNCHANGED <<inflight, nextId>>
       ELSE /\ storeReacts
            /\ log' = log \o <<CallEntry("submitQuestion", <<>>),
                               Dispatch([type |-> "QUESTION_SUBMIT_OPTIMISTIC"], nextId),
                               RequestEntry(submitRequest, FALSE)>>
            /\ inflight' = inflight \cup {submitRequest}
            /\ nextId' = nextId + 1
  /\ UNCHANGED <<now, previous, timeout, args, argsProduct, budget>>

\* mutant: the POST is started before the optimistic dispatch
submitQuestionPostFirst ==
  /\ storeReacts
  /\ SubmitsLeft
  /\ log' = log \o <<CallEntry("submitQuestion", <<>>),
                     RequestEntry(submitRequest, FALSE),
                     Dispatch([type |-> "QUESTION_SUBMIT_OPTIMISTIC"], nextId)>>
  /\ inflight' = inflight \cup {submitRequest}
  /\ nextId' = nextId + 1
  /\ UNCHANGED <<now, previous, timeout, args, argsProduct, budget>>

\* export function submitQuestion()
submitQuestion ==
  /\ storeReacts
  /\ SubmitsLeft
  /\ log' = log \o <<CallEntry("submitQuestion", <<>>),
                     Dispatch([type |-> "QUESTION_SUBMIT_OPTIMISTIC"], nextId),
                     RequestEntry(submitRequest, FALSE)>>
  /\ inflight' = inflight \cup {submitRequest}
  /\ nextId' = nextId + 1
  /\ UNCHANGED <<now, previous, timeout, args, argsProduct, budget>>

\* mutant: the done handler only logs to the console
submitDoneSilent(req) ==
  /\ ResponsesLeft
  /\ req \in inflight
  /\ req.method = "POST"
  /\ inflight' = inflight \ {req}
  /\ log' = log \o <<ResponseEntry(req, TRUE, <<>>)>>
  /\ UNCHANGED <<now, previous, timeout, args, argsProduct, draft, nextId, budget>>

\* .done((...args) => {...}) of submitQuestion
submitDone(req) ==
  /\ storeReacts
  /\ ResponsesLeft
  /\ req \in inflight
  /\ req.method = "POST"
  /\ inflight' = inflight \ {req}
  /\ log' = log \o <<ResponseEntry(req, TRUE, <<>>),
                     Dispatch([type |-> "QUESTION_SUBMIT_SUCCESS"], req.id)>>
  /\ UNCHANGED <<now, previous, timeout, args, argsProduct, nextId, budget>>

\* mutant: the failure event carries a fixed message
submitFailFixedText(req, statusText) ==
  /\ storeReacts
  /\ ResponsesLeft
  /\ req \in inflight
  /\ req.method = "POST"
  /\ inflight' = inflight \ {req}
  /\ log' = log \o <<ResponseEntry(req, FALSE, statusText),
                     Dispatch([type |-> "QUESTION_SUBMIT_FAILURE",
                               error |-> "error"], req.id)>>
  /\ UNCHANGED <<now, previous, timeout, args, argsProduct, nextId, budget>>

\* .fail((err) => {...}) of submitQuestion
submitFail(req, statusText) ==
  /\ storeReacts
  /\ ResponsesLeft
  /\ req \in inflight
  /\ req.method = "POST"
  /\ inflight' = inflight \ {req}
  /\ log' = log \o <<ResponseEntry(req, FALSE, statusText),
                     Dispatch([type |-> "QUESTION_SUBMIT_FAILURE",
                               error |-> statusText], req.id)>>
  /\ UNCHANGED <<now, previous, timeout, args, argsProduct, nextId, budget>>

\* QuestionEditStore changes the draft (the store is not part of this file)
StoreChange ==
  /\ budget.store
  /\ draft' \in Drafts \ {draft}
  /\ UNCHANGED <<now, previous, timeout, args, argsProduct, inflight, nextId, log, budget>>

\* time passes; the clock stops at MaxTime unless a timer is still to come due
Advance ==
  /\ now + Tick <= MaxTime \/ (timeout # <<>> /\ now < timeout[1])
  /\ now' = now + Tick
  /\ UNCHANGED <<previous, timeout, args, argsProduct, draft, inflight, nextId, log, budget>>

\* ------------------------------------------------------------- properties
IsCall(e, op) == e.kind = "call" /\ e.op = op
IsDispatch(e, type) == e.kind = "dispatch" /\ e.action.type = type
IsGet(e) == e.kind = "request" /\ e.method = "GET"
IsPost(e) == e.kind = "request" /\ e.method = "POST"

TitleCalls == Calls("setTitle")
Gets == Requests("GET")
TitleCallIdx == {i \in 1..Len(log) : IsCall(log[i], "setTitle")}
GetIdx == {j \in 1..Len(log) : IsGet(log[j])}

\* the throttle window is open at log entry i: a GET was fired less than
\* Wait before it
WindowOpenAt(i) ==
  \E j \in 1..(i - 1) : IsGet(log[j]) /\ log[i].at - log[j].at < Wait

\* the last setTitle call before log entry j (0: none)
LastTitleCallBefore(j) ==
  IF \E i \in 1..(j - 1) : IsCall(log[i], "setTitle")
    THEN CHOOSE i \in 1..(j - 1) :
           /\ IsCall(log[i], "setTitle")
           /\ \A k \in (i + 1)..(j - 1) : ~IsCall(log[k], "setTitle")
    ELSE 0

\* the scenario of C1: setTitle("t") called three times within 100ms on the
\* draft {product: "firefox", title: "t"}
Burst ==
  /\ draft = [product |-> "firefox", title |-> "t"]
  /\ Len(TitleCalls) = 3
  /\ \A i \in 1..3 : TitleCalls[i].arg = "t"
  /\ TitleCalls[3].at - TitleCalls[1].at <= 100

\* C1 as claimed: in the scenario exactly one suggestion GET is fired in
\* total, the timer's request included, and it carries q = "t".
C1Original ==
  Burst => Len(Gets) = 1 /\ Gets[1].data.q = "t"

\* C1, amended: in the scenario exactly one GET (q = "t") is fired during
\* the burst, by the first call; while the throttle's timer is pending it is
\* the only one, and once the timer has run there are exactly two GETs, the
\* second fired by the timer at least 500ms after the first, also with
\* q = "t".
C1Amended ==
  Burst =>
    /\ Len(Gets) >= 1
    /\ Gets[1].data.q = "t" /\ ~Gets[1].trailing /\ Gets[1].at = TitleCalls[1].at
    /\ timeout # <<>> => Len(Gets) = 1
    /\ timeout = <<>> =>
         /\ Len(Gets) = 2
         /\ Gets[2].data.q = "t" /\ Gets[2].trailing
         /\ Gets[2].at >= Gets[1].at + Wait

C1Witness == Burst /\ timeout = <<>> /\ Len(Gets) = 2

\* C2: any two consecutive suggestion GETs, leading or trailing, are at
\* least 500ms apart.
C2Spacing ==
  \A k \in 1..(Len(Gets) - 1) : Gets[k + 1].at - Gets[k].at >= Wait

C2Witness ==
  /\ Len(TitleCalls) >= 3 /\ Len(Gets) >= 2
  /\ Gets[2].at - Gets[1].at = Wait
  /\ TitleCalls[3].at < Gets[2].at

\* C3: leading-plus-trailing throttle.  A setTitle call made while no window
\* is open fires its GET at once with its own title; a call made inside an
\* open window fires no GET at call time; a GET fired by the timer carries
\* the title of the latest call, that call was made inside the window, and
\* no other GET was fired since that call (so one GET at most per window
\* end, and titles of earlier in-window calls are never sent).
C3LeadingTrailing ==
  /\ \A i \in TitleCallIdx :
       IF WindowOpenAt(i)
         THEN ~(i + 2 <= Len(log) /\ IsGet(log[i + 2]) /\ ~log[i + 2].trailing)
         ELSE /\ i + 2 <= Len(log)
              /\ IsGet(log[i + 2]) /\ ~log[i + 2].trailing
              /\ log[i + 2].data.q = log[i].arg
              /\ log[i + 2].at = log[i].at
  /\ \A j \in GetIdx :
       LET i == LastTitleCallBefore(j) IN
         /\ i # 0
         /\ log[j].data.q = log[i].arg
         /\ IF log[j].trailing
              THEN /\ WindowOpenAt(i)
                   /\ \A k \in GetIdx : ~(i < k /\ k < j)
                   /\ ~WindowOpenAt(j)
              ELSE j = i + 2

\* a trailing GET went out and the title of an earlier call in the same
\* window was never sent
C3Witness ==
  /\ timeout = <<>>
  /\ \E j \in GetIdx : log[j].trailing
  /\ \E i \in TitleCallIdx : \A j \in GetIdx : log[j].data.q # log[i].arg

\* C4: every setTitle(title) call posts exactly one SET_TITLE event with
\* payload title, at once and before any GET the call fires; the dispatch is
\* not throttled: the SET_TITLE events are the setTitle calls, in call order.
C4SetTitle ==
  /\ \A i \in TitleCallIdx :
       /\ i + 1 <= Len(log)
       /\ log[i + 1] = Dispatch([type |-> "SET_TITLE", title |-> log[i].arg], 0)
  /\ \A j \in 1..Len(log) :
       IsDispatch(log[j], "SET_TITLE") => j > 1 /\ IsCall(log[j - 1], "setTitle")
  /\ LET events == Dispatched("SET_TITLE")
         calls == TitleCalls
     IN /\ Len(events) = Len(calls)
        /\ \A k \in 1..Len(calls) : events[k].action.title = calls[k].arg
  /\ \A j \in GetIdx :
       LET i == LastTitleCallBefore(j) IN i # 0 /\ i + 1 < j

\* three calls in one window, one GET: the dispatch is not throttled
C4Witness ==
  /\ Len(TitleCalls) = 3 /\ Len(Gets) = 1
  /\ TitleCalls[1].arg # TitleCalls[2].arg
  /\ Len(Dispatched("SET_TITLE")) = 3

PostIdx == {j \in 1..Len(log) : IsPost(log[j])}
IsResponse(e, method) == e.kind = "response" /\ e.method = method
TerminalTypes == {"QUESTION_SUBMIT_SUCCESS", "QUESTION_SUBMIT_FAILURE"}
\* the terminal events posted for submission id
Terminals(id) ==
  {k \in 1..Len(log) :
     log[k].kind = "dispatch" /\ log[k].action.type \in TerminalTypes /\ log[k].req = id}
InflightIds == {r.id : r \in inflight}

\* C5: QUESTION_SUBMIT_OPTIMISTIC is posted by submitQuestion itself, before
\* its POST starts, so it precedes the SUCCESS or FAILURE event of the same
\* submission in every interleaving.
C5OptimisticFirst ==
  /\ \A i \in 1..Len(log) :
       IsCall(log[i], "submitQuestion") =>
         /\ i + 2 <= Len(log)
         /\ IsDispatch(log[i + 1], "QUESTION_SUBMIT_OPTIMISTIC")
         /\ IsPost(log[i + 2])
         /\ log[i + 1].req = log[i + 2].id
  /\ \A j \in PostIdx :
       /\ j > 2
       /\ IsCall(log[j - 2], "submitQuestion")
       /\ \A k \in Terminals(log[j].id) : k > j

\* the second of two overlapping submissions is answered first
C5Witness ==
  \E j1, j2 \in PostIdx :
    /\ j1 < j2
    /\ log[j1].id \in InflightIds
    /\ Terminals(log[j2].id) # {}

\* C6: a submission whose POST has resolved has exactly one terminal event:
\* QUESTION_SUBMIT_SUCCESS without payload after a success,
\* QUESTION_SUBMIT_FAILURE with error = the response's status text after a
\* failure; a submission still in flight has none.
C6OneTerminal ==
  /\ \A j \in PostIdx :
       Cardinality(Terminals(log[j].id)) =
         IF \E r \in 1..Len(log) : IsResponse(log[r], "POST") /\ log[r].id = log[j].id
           THEN 1 ELSE 0
  /\ \A r \in 1..Len(log) :
       IsResponse(log[r], "POST") =>
         /\ r + 1 <= Len(log)
         /\ log[r + 1].kind = "dispatch"
         /\ log[r + 1].req = log[r].id
         /\ log[r + 1].action =
              IF log[r].ok
                THEN [type |-> "QUESTION_SUBMIT_SUCCESS"]
                ELSE [type |-> "QUESTION_SUBMIT_FAILURE", error |-> log[r].body]

C6Witness ==
  /\ \E k \in 1..Len(log) :
       /\ IsDispatch(log[k], "QUESTION_SUBMIT_FAILURE")
       /\ log[k].action.error = "Bad Request"
  /\ \E k \in 1..Len(log) : IsDispatch(log[k], "QUESTION_SUBMIT_SUCCESS")

\* url of the question suggestion with the given id
QuestionUrl(id) ==
  CASE id = 7 -> "/questions/7"
    [] id = 12 -> "/questions/12"

\* suggestion s is record r with the properties in `set` assigned
IsUpdated(s, r, set) ==
  /\ DOMAIN s = DOMAIN r \cup DOMAIN set
  /\ \A f \in DOMAIN s : s[f] = IF f \in DOMAIN set THEN set[f] ELSE r[f]

\* C7: a suggestion GET that succeeds with N documents and M questions posts
\* exactly one SET_SUGGESTIONS event; its payload has length N+M and holds
\* that response's entries only: the documents in response order, tagged
\* "document", then the questions in response order, tagged "question", with
\* url "/questions/{id}" and summary "".
C7Suggestions ==
  \A r \in 1..Len(log) :
    (IsResponse(log[r], "GET") /\ log[r].ok) =>
      LET docs == log[r].body.documents
          qs == log[r].body.questions
          N == Len(docs)
          M == Len(qs)
      IN /\ r + 1 <= Len(log)
         /\ IsDispatch(log[r + 1], "SET_SUGGESTIONS")
         /\ log[r + 1].req = log[r].id
         /\ Cardinality({k \in 1..Len(log) :
                           IsDispatch(log[k], "SET_SUGGESTIONS") /\ log[k].req = log[r].id}) = 1
         /\ LET list == log[r + 1].action.suggestions IN
              /\ Len(list) = N + M
              /\ \A i \in 1..N : IsUpdated(list[i], docs[i], [type |-> "document"])
              /\ \A i \in 1..M :
                   IsUpdated(list[N + i], qs[i],
                             [type |-> "question", url |-> QuestionUrl(qs[i].id),
                              summary |-> ""])

\* a second successful response replaced a longer, different list
C7Witness ==
  \E k1, k2 \in 1..Len(log) :
    /\ k1 < k2
    /\ IsDispatch(log[k1], "SET_SUGGESTIONS") /\ IsDispatch(log[k2], "SET_SUGGESTIONS")
    /\ Len(log[k1].action.suggestions) = 3
    /\ Len(log[k2].action.suggestions) = 3
    /\ log[k1].action.suggestions # log[k2].action.suggestions

\* the suggestion list last posted (<<>> before the first)
LastSuggestions(l) ==
  LET idx == {k \in 1..Len(l) : IsDispatch(l[k], "SET_SUGGESTIONS")} IN
    IF idx = {} THEN <<>>
    ELSE l[CHOOSE k \in idx : \A m \in idx : m <= k].action.suggestions

\* C8: a suggestion GET that fails posts no event and starts no request, and
\* the suggestion list last posted stays what it was.
C8SilentFailure ==
  \A r \in 1..Len(log) :
    (IsResponse(log[r], "GET") /\ ~log[r].ok) =>
      /\ \A k \in 1..Len(log) : log[k].kind = "dispatch" => log[k].req # log[r].id
      /\ LastSuggestions(SubSeq(log, 1, r)) = LastSuggestions(SubSeq(log, 1, r - 1))
      /\ r < Len(log) =>
           \/ log[r + 1].kind \in {"call", "response"}
           \/ log[r + 1].kind = "request" /\ log[r + 1].trailing

\* a GET failed after a list had been posted
C8Witness ==
  /\ Len(log) > 0
  /\ IsResponse(log[Len(log)], "GET") /\ ~log[Len(log)].ok
  /\ LastSuggestions(log) # <<>>

\* the event a forwarding function is to post
ForwardAction(op, arg) ==
  CASE op = "setProduct" -> [type |-> "SET_PRODUCT", product |-> arg]
    [] op = "setTopic" -> [type |-> "SET_TOPIC", topic |-> arg]
    [] op = "setContent" -> [type |-> "SET_CONTENT", content |-> arg]
Forwarders == {"setProduct", "setTopic", "setContent"}

\* C9: setProduct, setTopic and setContent only forward: a call posts one
\* event of the matching type with the given payload and does nothing else:
\* no request, and the throttle window, the pending trailing search and the
\* requests in flight stay as they are.
C9Forwarding ==
  [][\A op \in Forwarders :
       (Len(log') > Len(log) /\ IsCall(log'[Len(log) + 1], op)) =>
         /\ log' = log \o <<log'[Len(log) + 1],
                            Dispatch(ForwardAction(op, log'[Len(log) + 1].arg), 0)>>
         /\ UNCHANGED <<previous, timeout, args, argsProduct, inflight, nextId, now>>]_vars

\* a forwarding call was made while a trailing search was pending and a GET
\* was in flight
C9Witness ==
  /\ Len(log) >= 2
  /\ \E op \in Forwarders : IsCall(log[Len(log) - 1], op)
  /\ log[Len(log)].kind = "dispatch"
  /\ timeout # <<>> /\ args # <<>>
  /\ inflight # {}

\* C10: a suggestion GET is never cancelled: it stays in flight until its own
\* response arrives, whatever is fired after it, and its successful response
\* posts SET_SUGGESTIONS whether or not a later GET exists; so responses that
\* arrive out of order leave the list of an older request in place.
C10NoCancellation ==
  /\ \A j \in GetIdx :
       (log[j].id \in InflightIds) #
         (\E r \in 1..Len(log) : IsResponse(log[r], "GET") /\ log[r].id = log[j].id)
  /\ \A r \in 1..Len(log) :
       (IsResponse(log[r], "GET") /\ log[r].ok) =>
         /\ r + 1 <= Len(log)
         /\ IsDispatch(log[r + 1], "SET_SUGGESTIONS")
         /\ log[r + 1].req = log[r].id

\* the list posted last comes from an older GET than the one answered before
C10Witness ==
  \E k1, k2 \in 1..Len(log) :
    /\ k1 < k2
    /\ IsDispatch(log[k1], "SET_SUGGESTIONS") /\ IsDispatch(log[k2], "SET_SUGGESTIONS")
    /\ log[k2].req # 0 /\ log[k1].req > log[k2].req
    /\ \A k \in 1..Len(log) : IsDispatch(log[k], "SET_SUGGESTIONS") => k <= k2

RequestIdx == {j \in 1..Len(log) : log[j].kind = "request"}

\* C11: no retries and no double-submit guard.  Every submitQuestion call
\* issues one POST, also while an earlier POST is in flight, so there are as
\* many POSTs as submitQuestion calls; and every request is issued by a
\* setTitle call, by the throttle's timer or by a submitQuestion call, never
\* by a response handler.
C11OnePostPerSubmit ==
  /\ Len(Requests("POST")) = Len(Calls("submitQuestion"))
  /\ \A i \in 1..Len(log) :
       IsCall(log[i], "submitQuestion") => i + 2 <= Len(log) /\ IsPost(log[i + 2])
  /\ \A j \in RequestIdx :
       \/ IsPost(log[j]) /\ j > 2 /\ IsCall(log[j - 2], "submitQuestion")
       \/ IsGet(log[j]) /\ ~log[j].trailing /\ j > 2 /\ IsCall(log[j - 2], "setTitle")
       \/ IsGet(log[j]) /\ log[j].trailing
  /\ \A j, k \in RequestIdx : log[j].id = log[k].id => j = k
  /\ \A r \in 1..Len(log) :
       (log[r].kind = "response" /\ ~log[r].ok) =>
         LET next == IF log[r].method = "POST" THEN r + 2 ELSE r + 1 IN
           next <= Len(log) =>
             \/ log[next].kind \in {"call", "response"}
             \/ IsGet(log[next]) /\ log[next].trailing

\* a second POST was issued while the first was in flight, and the first
\* then failed without a further request
C11Witness ==
  /\ Len(Requests("POST")) = 2
  /\ \E r \in 1..Len(log) :
       /\ IsResponse(log[r], "POST") /\ ~log[r].ok
       /\ log[r].id = Requests("POST")[1].id
       /\ \E j \in PostIdx : j < r /\ log[j].id = Requests("POST")[2].id
  /\ Cardinality(InflightIds) = 1

\* the log entries the step appends
NewIdx == (Len(log) + 1)..Len(log')

\* C12: no operation of the module writes the draft.  In a step of the
\* module the draft changes only while the store handles an action the step
\* dispatches; the timer's search and the handlers that dispatch nothing
\* leave it as it is.  The module only reads it: the product when a
\* suggestion GET is made, the whole draft when submitQuestion makes its POST.
C12DraftOnlyRead ==
  [][/\ (log' # log /\ draft' # draft) => \E k \in NewIdx : log'[k].kind = "dispatch"
     /\ \A k \in NewIdx :
          /\ IsGet(log'[k]) => log'[k].data.product = draft'.product
          /\ IsPost(log'[k]) => log'[k].data = draft']_vars

\* a GET and a POST were made and the store has changed the draft since
C12Witness ==
  /\ Len(Gets) >= 1
  /\ Len(Requests("POST")) >= 1
  /\ Requests("POST")[1].data # draft
  /\ Gets[1].data.product # draft.product

\* C13: the product of a suggestion GET is the draft's product when the
\* request is made.  A GET made by the throttle's timer carries the product
\* the draft has when the timer runs, whatever it was when setTitle was
\* called, and as q the title of that setTitle call, the latest one.
C13ProductAtFireTime ==
  [][\A k \in NewIdx :
       IsGet(log'[k]) =>
         /\ log'[k].data.product = draft'.product
         /\ log'[k].trailing =>
              /\ log'[k].data.product = draft.product
              /\ TitleCalls # <<>>
              /\ log'[k].data.q = TitleCalls[Len(TitleCalls)].arg]_vars

\* the timer made a GET after the product had changed since the call
C13Witness ==
  \E j \in GetIdx :
    /\ log[j].trailing
    /\ log[j].calledWith # log[j].data.product
    /\ log[j].data.q = log[LastTitleCallBefore(j)].arg

\* the throttle is at rest and the last GET carries the title of the last
\* setTitle call
LatestTitleSent ==
  TitleCalls # <<>> =>
    /\ timeout = <<>>
    /\ Gets # <<>>
    /\ Gets[Len(Gets)].data.q = TitleCalls[Len(TitleCalls)].arg

\* C14: the latest title is not lost by the throttle: when the setTitle
\* calls have stopped and the timer gets to run, the last GET issued carries
\* the title of the last setTitle call, from then on.
C14LatestTitle == <>[]LatestTitleSent

\* the timer has sent the title of the last call of a window, which is not
\* the title the window's first call sent
C14Witness ==
  /\ LatestTitleSent
  /\ Len(Gets) >= 2
  /\ Gets[Len(Gets)].trailing
  /\ Gets[Len(Gets)].data.q # Gets[Len(Gets) - 1].data.q

Count(type) == Len(Dispatched(type))
PostsInFlight == {r \in inflight : r.method = "POST"}
GetsInFlight == {r \in inflight : r.method = "GET"}

\* C15: with any number of overlapping submissions, the SUCCESS and FAILURE
\* events together are at most the OPTIMISTIC events, which are as many as
\* the submitQuestion calls; the difference is the number of POSTs in flight.
C15SubmitCounts ==
  /\ Count("QUESTION_SUBMIT_OPTIMISTIC") = Len(Calls("submitQuestion"))
  /\ Count("QUESTION_SUBMIT_SUCCESS") + Count("QUESTION_SUBMIT_FAILURE")
       <= Count("QUESTION_SUBMIT_OPTIMISTIC")
  /\ Count("QUESTION_SUBMIT_OPTIMISTIC")
       - (Count("QUESTION_SUBMIT_SUCCESS") + Count("QUESTION_SUBMIT_FAILURE"))
       = Cardinality(PostsInFlight)

\* two submissions, one answered with success, one in flight
C15Witness ==
  /\ Len(Calls("submitQuestion")) = 2
  /\ Count("QUESTION_SUBMIT_SUCCESS") = 1
  /\ Cardinality(PostsInFlight) = 1

\* the SET_SUGGESTIONS events posted by the search path
SearchSetIdx ==
  {k \in 1..Len(log) : IsDispatch(log[k], "SET_SUGGESTIONS") /\ log[k].req # 0}

\* C16: every SET_SUGGESTIONS event of the search path follows the
\* successful response to one GET fired before it, and a GET has at most one;
\* so, when setSuggestions is not called directly, there are at most as many
\* SET_SUGGESTIONS events as GETs fired, and at most as many GETs as
\* setTitle calls.
C16SuggestionCounts ==
  /\ \A k \in SearchSetIdx :
       /\ k > 1
       /\ IsResponse(log[k - 1], "GET") /\ log[k - 1].ok /\ log[k - 1].id = log[k].req
       /\ \E j \in GetIdx : j < k /\ log[j].id = log[k].req
  /\ \A k1, k2 \in SearchSetIdx : log[k1].req = log[k2].req => k1 = k2
  /\ \A k \in 1..Len(log) :
       (IsDispatch(log[k], "SET_SUGGESTIONS") /\ log[k].req = 0) =>
         k > 1 /\ IsCall(log[k - 1], "setSuggestions")
  /\ Calls("setSuggestions") = <<>> => Count("SET_SUGGESTIONS") <= Len(Gets)
  /\ Cardinality(SearchSetIdx) <= Len(Gets)
  /\ Len(Gets) <= Len(TitleCalls)

\* two calls, two GETs, one answered with success and one with failure
C16Witness ==
  /\ Len(TitleCalls) = 2 /\ Len(Gets) = 2
  /\ Count("SET_SUGGESTIONS") = 1
  /\ Len(Responses("GET")) = 2

\* C17: the body of a submission's POST is the draft as it is after the
\* QUESTION_SUBMIT_OPTIMISTIC dispatch has returned; a POST in flight keeps
\* the body it was sent with whatever happens to the draft; and
\* submitQuestion neither fires nor cancels a suggestion search.
C17PostBody ==
  [][/\ \A r \in PostsInFlight' : r \in PostsInFlight \/ r.data = draft'
     /\ Len(log') >= Len(log) /\ SubSeq(log', 1, Len(log)) = log
     /\ (Len(log') > Len(log) /\ IsCall(log'[Len(log) + 1], "submitQuestion")) =>
          /\ Len(log') = Len(log) + 3
          /\ IsPost(log'[Len(log) + 3])
          /\ log'[Len(log) + 3].data = draft'
          /\ Cardinality(PostsInFlight') = Cardinality(PostsInFlight) + 1
          /\ GetsInFlight' = GetsInFlight
          /\ UNCHANGED <<previous, timeout, args, argsProduct, now>>]_vars

\* a POST is in flight with a body that is no longer the draft, made while a
\* trailing search was pending and a GET in flight, both still there
C17Witness ==
  /\ Len(log) > 0
  /\ IsPost(log[Len(log)])
  /\ log[Len(log)].data # draft
  /\ \E r \in PostsInFlight : r.id = log[Len(log)].id /\ r.data = log[Len(log)].data
  /\ timeout # <<>> /\ args # <<>>
  /\ GetsInFlight # {}

Init ==
  /\ now = StartTime
  /\ previous = 0
  /\ timeout = <<>>
  /\ args = <<>>
  /\ argsProduct = ""
  /\ draft \in Drafts
  /\ inflight = {}
  /\ nextId = 1
  /\ log = <<>>
  /\ budget \in Budgets

Next ==
  \/ \E title \in Titles : setTitle(title)
  \/ later
  \/ \E product \in Products : setProduct(product)
  \/ \E topic \in Topics : setTopic(topic)
  \/ \E content \in Contents : setContent(content)
  \/ \E list \in DirectSuggestions : setSuggestionsCall(list)
  \/ \E req \in inflight, data \in SuggestResponses : suggestDone(req, data)
  \/ \E req \in inflight : suggestFail(req)
  \/ submitQuestion
  \/ \E req \in inflight : submitDone(req)
  \/ \E req \in inflight, statusText \in StatusTexts : submitFail(req, statusText)
  \/ StoreChange
  \/ Advance

Spec == Init /\ [][Next]_vars

\* time passes and a timer that is due runs
FairSpec == Spec /\ WF_vars(Advance) /\ WF_vars(later)
====
